---- MODULE Spec2Model ----
(***************************************************************************)
(* Model of src/result.hpp: the class template Result<T, E>, the tag       *)
(* wrappers details::Ok<T> / details::Err<E>, the helpers Ok() / Err()     *)
(* and the TRY macro.                                                      *)
(*                                                                         *)
(* Payloads of both T and E are small integers.  A details::Ok<T> or a     *)
(* details::Err<E> is the record [alt, v]; the member variant_ of a Result *)
(* holds one such record, as std::variant<OkT, ErrE> holds one alternative.*)
(* Every member function is an operator from the object's variant_ (and    *)
(* its arguments) to a record with the object's variant_ afterwards and    *)
(* what the call gave back; the actions apply the operators to the two     *)
(* Result objects "a" and "b" of the state.                                *)
(*                                                                         *)
(* std::move of a payload leaves the source "valid but unspecified": the   *)
(* value left behind (mf) is an input of each operator that moves, chosen  *)
(* by the action among all values.                                         *)
(***************************************************************************)
EXTENDS Integers, Sequences, FiniteSets, TLC

\* ------------------------------------------------------------- bounds
MaxVal == 2
Vals == 0..MaxVal
Inst == {"a", "b"}

\* ------------------------------------------------------------- values
\* std::nullopt / no value returned
NoVal == -1
\* no Result returned
NoRes == [alt |-> "none", v |-> NoVal]

\* details::Ok<T>::Ok(T t) : t_(std::move(t))
details_Ok(t) == [alt |-> "Ok", v |-> t]
\* details::Err<E>::Err(E e) : e_(std::move(e))
details_Err(e) == [alt |-> "Err", v |-> e]

\* Ok(T&& t): details::Ok<decay_t<T>>(forward(t))
Ok(t) == details_Ok(t)
\* Err(E&& e): details::Err<decay_t<E>>(forward(e))
Err(e) == details_Err(e)

\* Result(details::Ok<U> ok) : variant_{ OkT(std::move(ok.t_)) }
Result_Ok(ok) == details_Ok(ok.v)
\* Mutant: the failure tag is stored as the success alternative.
Result_Err_wrong_alternative(err) == details_Ok(err.v)
\* Result(details::Err<F> err) : variant_{ ErrE(std::move(err.e_)) }
Result_Err(err) == details_Err(err.v)

\* The callables handed to map / map_err / unwrap_or_else (T -> U, E -> F).
Fns == {"dbl", "inc", "zero"}
Apply(fn, x) ==
    CASE fn = "dbl" -> x * 2
      [] fn = "inc" -> x + 1
      [] OTHER      -> 0

\* The callables handed to and_then / or_else (T -> Result, E -> Result).
ResFns == {"ok_inc", "fail", "odd_fail"}
ApplyRes(fn, x) ==
    CASE fn = "ok_inc" -> Result_Ok(Ok(x + 1))
      [] fn = "fail"   -> Result_Err(Err(x))
      [] OTHER         -> IF x % 2 = 1 THEN Result_Err(Err(x)) ELSE Result_Ok(Ok(x))

\* The diagnostics handed to expect / expect_err.
Msgs == {"m1", "m2"}

\* What a call gives back: the object afterwards (self), the kind of outcome
\* ("bool", "value", "some", "none", "result", "throw"), the value or Result
\* returned, the arguments the callable was invoked with (calls), the what()
\* of the exception thrown, and whether the payload was moved out (mv).
Ret(self, kind, val, res, calls, msg, mv) ==
    [self |-> self, kind |-> kind, val |-> val, res |-> res,
     calls |-> calls, msg |-> msg, mv |-> mv]

\* ------------------------------------------------------ private helpers
\* std::holds_alternative< OkT >(variant_)
is_ok(s) == s.alt = "Ok"
\* std::holds_alternative< ErrE >(variant_)
is_err(s) == s.alt = "Err"

\* std::get< OkT >(variant_): the alternative (std::bad_variant_access when
\* it is not the active one: NoRes; every caller checks is_ok() first)
get_ok_(s) == IF s.alt = "Ok" THEN s ELSE NoRes
get_err_(s) == IF s.alt = "Err" THEN s ELSE NoRes
get_t_(s) == get_ok_(s).v
get_e_(s) == get_err_(s).v

\* Mutant: extraction invalidates the source (no alternative stays active).
move_t_invalidating(s, mf) ==
    [self |-> IF s.alt = "Ok" THEN NoRes ELSE s, val |-> get_t_(s)]
\* std::move(get_t_()): the payload leaves, mf stays behind, the alternative
\* stays the active one.
move_t_(s, mf) ==
    [self |-> IF s.alt = "Ok" THEN [s EXCEPT !.v = mf] ELSE s, val |-> get_t_(s)]
move_e_(s, mf) ==
    [self |-> IF s.alt = "Err" THEN [s EXCEPT !.v = mf] ELSE s, val |-> get_e_(s)]
\* std::get< OkT >(std::move(variant_)): the whole alternative is moved out.
move_ok_(s, mf) ==
    [self |-> IF s.alt = "Ok" THEN [s EXCEPT !.v = mf] ELSE s, tag |-> get_ok_(s)]
\* Mutant: moving the alternative out leaves the variant valueless.
move_err_valueless(s, mf) ==
    [self |-> IF s.alt = "Err" THEN [alt |-> "valueless", v |-> mf] ELSE s,
     tag |-> get_err_(s)]
move_err_(s, mf) ==
    [self |-> IF s.alt = "Err" THEN [s EXCEPT !.v = mf] ELSE s, tag |-> get_err_(s)]

\* ------------------------------------------------------------ public API
\* Mutant: ok() on a failure moves the failure payload away.
ok_touching_err(s, mf) ==
    IF is_ok(s)
    THEN LET m == move_t_(s, mf) IN Ret(m.self, "some", m.val, NoRes, <<>>, "", TRUE)
    ELSE Ret(move_e_(s, mf).self, "none", NoVal, NoRes, <<>>, "", FALSE)

\* std::optional< T > ok()
ok(s, mf) ==
    IF is_ok(s)
    THEN LET m == move_t_(s, mf) IN Ret(m.self, "some", m.val, NoRes, <<>>, "", TRUE)
    ELSE Ret(s, "none", NoVal, NoRes, <<>>, "", FALSE)

\* std::optional< E > err()
err(s, mf) ==
    IF is_err(s)
    THEN LET m == move_e_(s, mf) IN Ret(m.self, "some", m.val, NoRes, <<>>, "", TRUE)
    ELSE Ret(s, "none", NoVal, NoRes, <<>>, "", FALSE)

\* T unwrap()
unwrap(s, mf) ==
    IF is_ok(s)
    THEN LET m == move_t_(s, mf) IN Ret(m.self, "value", m.val, NoRes, <<>>, "", TRUE)
    ELSE Ret(s, "throw", NoVal, NoRes, <<>>, "Result::unwrap panicked", FALSE)

\* Mutant: the wrong variant gives a value-initialized E instead of throwing.
unwrap_err_no_throw(s, mf) ==
    IF is_err(s)
    THEN LET m == move_e_(s, mf) IN Ret(m.self, "value", m.val, NoRes, <<>>, "", TRUE)
    ELSE Ret(s, "value", 0, NoRes, <<>>, "", FALSE)

\* E unwrap_err()
unwrap_err(s, mf) ==
    IF is_err(s)
    THEN LET m == move_e_(s, mf) IN Ret(m.self, "value", m.val, NoRes, <<>>, "", TRUE)
    ELSE Ret(s, "throw", NoVal, NoRes, <<>>, "Result::unwrawp_err panicked", FALSE)

\* T unwrap_or(U&& default_value)
unwrap_or(s, default_value, mf) ==
    IF is_ok(s)
    THEN LET m == move_t_(s, mf) IN Ret(m.self, "value", m.val, NoRes, <<>>, "", TRUE)
    ELSE Ret(s, "value", default_value, NoRes, <<>>, "", FALSE)

\* T unwrap_or_else(Fn& fn)
unwrap_or_else(s, fn, mf) ==
    IF is_ok(s)
    THEN LET m == move_t_(s, mf) IN Ret(m.self, "value", m.val, NoRes, <<>>, "", TRUE)
    ELSE LET m == move_e_(s, mf)
         IN Ret(m.self, "value", Apply(fn, m.val), NoRes, <<m.val>>, "", TRUE)

\* T unwrap_or_default(): T() of an integer T is 0
unwrap_or_default(s, mf) ==
    IF is_ok(s)
    THEN LET m == move_t_(s, mf) IN Ret(m.self, "value", m.val, NoRes, <<>>, "", TRUE)
    ELSE Ret(s, "value", 0, NoRes, <<>>, "", FALSE)

\* T expect(std::string_view msg)
expect(s, msg, mf) ==
    IF is_ok(s)
    THEN LET m == move_t_(s, mf) IN Ret(m.self, "value", m.val, NoRes, <<>>, "", TRUE)
    ELSE Ret(s, "throw", NoVal, NoRes, <<>>, msg, FALSE)

\* E expect_err(std::string_view msg)
expect_err(s, msg, mf) ==
    IF is_err(s)
    THEN LET m == move_e_(s, mf) IN Ret(m.self, "value", m.val, NoRes, <<>>, "", TRUE)
    ELSE Ret(s, "throw", NoVal, NoRes, <<>>, msg, FALSE)

\* Mutant: fn is applied to the failure payload too.
map_both(s, fn, mf) ==
    IF is_ok(s)
    THEN LET m == move_t_(s, mf)
         IN Ret(m.self, "result", NoVal, Result_Ok(Ok(Apply(fn, m.val))), <<m.val>>, "", TRUE)
    ELSE LET m == move_e_(s, mf)
         IN Ret(m.self, "result", NoVal, Result_Err(Err(Apply(fn, m.val))), <<m.val>>, "", TRUE)

\* Result< U, E > map(Fn&& fn)
map(s, fn, mf) ==
    IF is_ok(s)
    THEN LET m == move_t_(s, mf)
         IN Ret(m.self, "result", NoVal, Result_Ok(Ok(Apply(fn, m.val))), <<m.val>>, "", TRUE)
    ELSE LET m == move_err_(s, mf)
         IN Ret(m.self, "result", NoVal, Result_Err(m.tag), <<>>, "", TRUE)

\* Mutant: fn is applied to the success payload (as the static_assert has it).
map_err_on_ok(s, fn, mf) ==
    IF is_ok(s)
    THEN LET m == move_t_(s, mf)
         IN Ret(m.self, "result", NoVal, Result_Ok(Ok(Apply(fn, m.val))), <<m.val>>, "", TRUE)
    ELSE LET m == move_e_(s, mf)
         IN Ret(m.self, "result", NoVal, Result_Err(Err(Apply(fn, m.val))), <<m.val>>, "", TRUE)

\* Result< T, F > map_err(Fn& fn)
map_err(s, fn, mf) ==
    IF is_ok(s)
    THEN LET m == move_ok_(s, mf)
         IN Ret(m.self, "result", NoVal, Result_Ok(m.tag), <<>>, "", TRUE)
    ELSE LET m == move_e_(s, mf)
         IN Ret(m.self, "result", NoVal, Result_Err(Err(Apply(fn, m.val))), <<m.val>>, "", TRUE)

\* Result(Result&&) = default: the new object takes the alternative and its
\* payload, the source keeps its alternative with what the move left (mf).
MoveCtor(src, mf) == [new |-> src, src |-> [src EXCEPT !.v = mf]]

\* Res and_(Res&& res): the record also carries the argument afterwards
\* (other) and whether it was moved from (omv).
and_(s, res, mf) ==
    IF is_ok(s)
    THEN LET c == MoveCtor(res, mf)
         IN [r |-> Ret(s, "result", NoVal, c.new, <<>>, "", FALSE),
             other |-> c.src, omv |-> TRUE]
    ELSE LET m == move_err_(s, mf)
         IN [r |-> Ret(m.self, "result", NoVal, Result_Err(m.tag), <<>>, "", TRUE),
             other |-> res, omv |-> FALSE]

\* Mutant: no short circuit, fn is invoked with the failure payload.
and_then_no_short_circuit(s, fn, mf) ==
    IF is_ok(s)
    THEN LET m == move_t_(s, mf)
         IN Ret(m.self, "result", NoVal, ApplyRes(fn, m.val), <<m.val>>, "", TRUE)
    ELSE LET m == move_e_(s, mf)
         IN Ret(m.self, "result", NoVal, ApplyRes(fn, m.val), <<m.val>>, "", TRUE)

\* Res and_then(Fn& fn)
and_then(s, fn, mf) ==
    IF is_ok(s)
    THEN LET m == move_t_(s, mf)
         IN Ret(m.self, "result", NoVal, ApplyRes(fn, m.val), <<m.val>>, "", TRUE)
    ELSE LET m == move_err_(s, mf)
         IN Ret(m.self, "result", NoVal, Result_Err(m.tag), <<>>, "", TRUE)

\* Res or_(Res&& res)
or_(s, res, mf) ==
    IF is_ok(s)
    THEN LET m == move_ok_(s, mf)
         IN [r |-> Ret(m.self, "result", NoVal, Result_Ok(m.tag), <<>>, "", TRUE),
             other |-> res, omv |-> FALSE]
    ELSE LET c == MoveCtor(res, mf)
         IN [r |-> Ret(s, "result", NoVal, c.new, <<>>, "", FALSE),
             other |-> c.src, omv |-> TRUE]

\* Res or_else(Fn& fn)
or_else(s, fn, mf) ==
    IF is_ok(s)
    THEN LET m == move_ok_(s, mf)
         IN Ret(m.self, "result", NoVal, Result_Ok(m.tag), <<>>, "", TRUE)
    ELSE LET m == move_e_(s, mf)
         IN Ret(m.self, "result", NoVal, ApplyRes(fn, m.val), <<m.val>>, "", TRUE)

\* std::less<>, std::greater<>, std::less_equal<>, std::greater_equal<>,
\* std::equal_to<> as handed to rel_op_ by operator< > <= >= ==
RelOps == {"less", "greater", "less_equal", "greater_equal", "equal_to"}
op_(op, l, r) ==
    CASE op = "less"          -> l < r
      [] op = "greater"       -> l > r
      [] op = "less_equal"    -> l <= r
      [] op = "greater_equal" -> l >= r
      [] OTHER                -> l = r

\* Mutant: differing variants answer with the right-hand operand's is_ok().
rel_op_other_is_ok(s, other, op) ==
    IF is_ok(s) /\ is_ok(other)
    THEN op_(op, get_t_(s), get_t_(other))
    ELSE IF is_err(s) /\ is_err(other)
         THEN op_(op, get_e_(s), get_e_(other))
         ELSE is_ok(other)

\* bool rel_op_(ResT const& other, Op & op)
rel_op_(s, other, op) ==
    IF is_ok(s) /\ is_ok(other)
    THEN op_(op, get_t_(s), get_t_(other))
    ELSE IF is_err(s) /\ is_err(other)
         THEN op_(op, get_e_(s), get_e_(other))
         ELSE is_ok(s)

\* ------------------------------------------------------------ TRY macro
\* The failure types E for which the macro's `return res.unwrap_err();`
\* converts to the enclosing function's Result<T, E>: Result has converting
\* constructors from details::Ok<U> and details::Err<F> only, so E is one of
\* the two tag types (for any other E the return statement is ill-formed and
\* there is no program).  A payload of such an E is the tag holding the
\* integer that stands for it.
EKinds == {"Ok", "Err"}
AsTag(ekind, n) == [alt |-> ekind, v |-> n]

\* The macro body: auto res = (__VA_ARGS__); if (res.is_err()) return
\* res.unwrap_err(); res.unwrap();  exit: the enclosing function returns
\* retval (a bare E); otherwise the expression has the value val.
TRY(res, mf) ==
    IF is_err(res)
    THEN [exit |-> TRUE, retval |-> unwrap_err(res, mf).val, val |-> NoVal]
    ELSE [exit |-> FALSE, retval |-> NoVal, val |-> unwrap(res, mf).val]

\* The bare E returned by the macro, converted to the enclosing function's
\* return type by the one converting constructor of Result that takes it.
ReturnConv(ekind, e) ==
    IF AsTag(ekind, e).alt = "Ok"
    THEN Result_Ok(AsTag(ekind, e))
    ELSE Result_Err(AsTag(ekind, e))

\* ---------------------------------------------------------------- state
VARIABLES
    variant_,   \* variant_[x]: the member variant_ of Result object x
    orig,       \* orig[x]: what x was constructed (or last assigned) with
    moved,      \* moved[x]: the payload of x has been moved out since then
    out,        \* the call in progress and what it gave back
    frame,      \* the function that uses TRY: its sub-call, locals, result
    pc          \* "idle", "called", "try_after", "try_returned", "panicked"

vars == <<variant_, orig, moved, out, frame, pc>>

NoOut ==
    [op |-> "", self |-> "", pre |-> NoRes, live |-> FALSE, fn |-> "", fn2 |-> "",
     dv |-> NoVal,
     kind |-> "", val |-> NoVal, b |-> FALSE, res |-> NoRes,
     calls |-> <<>>, calls2 |-> <<>>, msg |-> ""]
NoFrame ==
    [ekind |-> "", sub |-> NoRes, x |-> NoVal, ret |-> NoRes, after |-> FALSE]

\* What a Result is built from: Ok(t) or Err(e).
Tags == {Ok(t) : t \in Vals} \cup {Err(e) : e \in Vals}
\* Result< T, E > x = Ok(t);   Result< T, E > x = Err(e);
Construct(tag) == IF tag.alt = "Ok" THEN Result_Ok(tag) ELSE Result_Err(tag)
Results == {Construct(tag) : tag \in Tags}

Init ==
    /\ orig \in [Inst -> Tags]
    /\ variant_ = [x \in Inst |-> Construct(orig[x])]
    /\ moved = [x \in Inst |-> FALSE]
    /\ out = NoOut
    /\ frame = NoFrame
    /\ pc = "idle"

\* A member call on object x that gave back r.
Call(x, op, fn, fn2, dv, r, calls2) ==
    /\ pc = "idle"
    /\ variant_' = [variant_ EXCEPT ![x] = r.self]
    /\ moved' = [moved EXCEPT ![x] = @ \/ r.mv]
    /\ out' = [op |-> op, self |-> x, pre |-> variant_[x], live |-> ~moved[x],
               fn |-> fn, fn2 |-> fn2, dv |-> dv, kind |-> r.kind, val |-> r.val,
               b |-> FALSE,
               res |-> r.res, calls |-> r.calls, calls2 |-> calls2, msg |-> r.msg]
    /\ pc' = IF r.kind = "throw" THEN "panicked" ELSE "called"
    /\ UNCHANGED <<orig, frame>>

\* A const query on object x that gave back the boolean b.
Query(x, op, fn, b) ==
    /\ pc = "idle"
    /\ out' = [NoOut EXCEPT !.op = op, !.self = x, !.pre = variant_[x],
                            !.live = ~moved[x], !.fn = fn, !.kind = "bool", !.b = b]
    /\ pc' = "called"
    /\ UNCHANGED <<variant_, orig, moved, frame>>

Call_is_ok == \E x \in Inst :
    /\ Query(x, "is_ok", "", is_ok(variant_[x]))
Call_is_err == \E x \in Inst :
    /\ Query(x, "is_err", "", is_err(variant_[x]))

Call_ok == \E x \in Inst, mf \in Vals :
    /\ Call(x, "ok", "", "", NoVal, ok(variant_[x], mf), <<>>)
Call_err == \E x \in Inst, mf \in Vals :
    /\ Call(x, "err", "", "", NoVal, err(variant_[x], mf), <<>>)
Call_unwrap == \E x \in Inst, mf \in Vals :
    /\ Call(x, "unwrap", "", "", NoVal, unwrap(variant_[x], mf), <<>>)
Call_unwrap_err == \E x \in Inst, mf \in Vals :
    /\ Call(x, "unwrap_err", "", "", NoVal, unwrap_err(variant_[x], mf), <<>>)
Call_unwrap_or == \E x \in Inst, mf \in Vals, d \in Vals :
    /\ Call(x, "unwrap_or", "", "", d, unwrap_or(variant_[x], d, mf), <<>>)
Call_unwrap_or_else == \E x \in Inst, mf \in Vals, fn \in Fns :
    /\ Call(x, "unwrap_or_else", fn, "", NoVal, unwrap_or_else(variant_[x], fn, mf), <<>>)
Call_unwrap_or_default == \E x \in Inst, mf \in Vals :
    /\ Call(x, "unwrap_or_default", "", "", NoVal, unwrap_or_default(variant_[x], mf), <<>>)
Call_expect == \E x \in Inst, mf \in Vals, msg \in Msgs :
    /\ Call(x, "expect", msg, "", NoVal, expect(variant_[x], msg, mf), <<>>)
Call_expect_err == \E x \in Inst, mf \in Vals, msg \in Msgs :
    /\ Call(x, "expect_err", msg, "", NoVal, expect_err(variant_[x], msg, mf), <<>>)
Call_map == \E x \in Inst, mf \in Vals, fn \in Fns :
    /\ Call(x, "map", fn, "", NoVal, map(variant_[x], fn, mf), <<>>)
Call_map_err == \E x \in Inst, mf \in Vals, fn \in Fns :
    /\ Call(x, "map_err", fn, "", NoVal, map_err(variant_[x], fn, mf), <<>>)
Call_and_then == \E x \in Inst, mf \in Vals, fn \in ResFns :
    /\ Call(x, "and_then", fn, "", NoVal, and_then(variant_[x], fn, mf), <<>>)
Call_or_else == \E x \in Inst, mf \in Vals, fn \in ResFns :
    /\ Call(x, "or_else", fn, "", NoVal, or_else(variant_[x], fn, mf), <<>>)

\* x.map(f).map_err(g): map_err is called on the temporary map returned.
Call_map_map_err == \E x \in Inst, mf \in Vals, f \in Fns, g \in Fns :
    LET r1 == map(variant_[x], f, mf)
        r2 == map_err(r1.res, g, mf)
    IN /\ Call(x, "map.map_err", f, g, NoVal, [r1 EXCEPT !.res = r2.res], r2.calls)

\* x.and_(std::move(y)) / x.or_(std::move(y)): y is moved from when returned.
Call2(x, y, op, rr) ==
    /\ pc = "idle"
    /\ variant_' = [variant_ EXCEPT ![x] = rr.r.self, ![y] = rr.other]
    /\ moved' = [moved EXCEPT ![x] = @ \/ rr.r.mv, ![y] = @ \/ rr.omv]
    /\ out' = [op |-> op, self |-> x, pre |-> variant_[x], live |-> ~moved[x],
               fn |-> y, fn2 |-> "", dv |-> NoVal, kind |-> rr.r.kind, val |-> rr.r.val,
               b |-> FALSE, res |-> rr.r.res, calls |-> <<>>, calls2 |-> <<>>,
               msg |-> ""]
    /\ pc' = "called"
    /\ UNCHANGED <<orig, frame>>

Call_and_ == \E x \in Inst, y \in Inst, mf \in Vals :
    /\ x # y
    /\ Call2(x, y, "and_", and_(variant_[x], variant_[y], mf))
Call_or_ == \E x \in Inst, y \in Inst, mf \in Vals :
    /\ x # y
    /\ Call2(x, y, "or_", or_(variant_[x], variant_[y], mf))

\* x < y, x > y, x <= y, x >= y, x == y
Call_rel_op == \E x \in Inst, y \in Inst, op \in RelOps :
    /\ Query(x, op, y, rel_op_(variant_[x], variant_[y], op))

\* x = std::move(y): Result& operator=(Result&&) = default
MoveAssign == \E x \in Inst, y \in Inst, mf \in Vals :
    /\ pc = "idle"
    /\ x # y
    /\ LET c == MoveCtor(variant_[y], mf)
       IN /\ variant_' = [variant_ EXCEPT ![x] = c.new, ![y] = c.src]
          /\ orig' = [orig EXCEPT ![x] = c.new]
    /\ moved' = [moved EXCEPT ![x] = FALSE, ![y] = TRUE]
    /\ UNCHANGED <<out, frame, pc>>

\* A function returning Result< T, E > evaluates `T x = TRY(sub());`
TryEnter == \E ekind \in EKinds, sub \in Results, mf \in Vals :
    /\ pc = "idle"
    /\ LET t == TRY(sub, mf)
       IN IF t.exit
          THEN /\ frame' = [ekind |-> ekind, sub |-> sub, x |-> NoVal,
                            ret |-> ReturnConv(ekind, t.retval), after |-> FALSE]
               /\ pc' = "try_returned"
          ELSE /\ frame' = [ekind |-> ekind, sub |-> sub, x |-> t.val,
                            ret |-> NoRes, after |-> FALSE]
               /\ pc' = "try_after"
    /\ UNCHANGED <<variant_, orig, moved, out>>

\* ... and then runs the code after the shortcut: `return Ok(x + 1);`
TryAfter ==
    /\ pc = "try_after"
    /\ frame' = [frame EXCEPT !.ret = Result_Ok(Ok(frame.x + 1)), !.after = TRUE]
    /\ pc' = "try_returned"
    /\ UNCHANGED <<variant_, orig, moved, out>>

\* End of the full expression: the temporary the call returned is destroyed.
Discard ==
    /\ pc \in {"called", "try_returned"}
    /\ out' = NoOut
    /\ frame' = NoFrame
    /\ pc' = "idle"
    /\ UNCHANGED <<variant_, orig, moved>>

Next ==
    \/ Call_is_ok \/ Call_is_err
    \/ Call_ok \/ Call_err
    \/ Call_unwrap \/ Call_unwrap_err
    \/ Call_unwrap_or \/ Call_unwrap_or_else \/ Call_unwrap_or_default
    \/ Call_expect \/ Call_expect_err
    \/ Call_map \/ Call_map_err \/ Call_map_map_err
    \/ Call_and_ \/ Call_and_then \/ Call_or_ \/ Call_or_else
    \/ Call_rel_op
    \/ MoveAssign
    \/ TryEnter \/ TryAfter
    \/ Discard

Spec == Init /\ [][Next]_vars

\* ----------------------------------------------------------- properties
\* The object a call was made on.
Self == out.self
Called == pc \in {"called", "panicked"} /\ out.op # ""

\* C1: a Result constructed from Ok(t) reports is_ok() = true and is_err() =
\* false and its unwrap() returns t; a Result constructed from Err(e) reports
\* is_err() = true and is_ok() = false and its unwrap_err() returns e.
C1_ConstructThenObserve ==
    Called /\ out.live =>
        /\ out.op = "is_ok" => (out.b <=> orig[Self].alt = "Ok")
        /\ out.op = "is_err" => (out.b <=> orig[Self].alt = "Err")
        /\ out.op = "unwrap" /\ orig[Self].alt = "Ok" =>
              out.kind = "value" /\ out.val = orig[Self].v
        /\ out.op = "unwrap_err" /\ orig[Self].alt = "Err" =>
              out.kind = "value" /\ out.val = orig[Self].v
C1_Witness ==
    /\ pc = "called" /\ out.op = "unwrap_err" /\ out.live
    /\ orig[Self] = Err(2) /\ out.val = 2

\* C2: in every reachable state exactly one of the two variants of every
\* Result (the objects and the Result a combinator returned) is active:
\* is_ok() and is_err() are never both true and never both false.
ExactlyOne(s) == is_ok(s) # is_err(s)
C2_ExactlyOneVariant ==
    /\ \A x \in Inst : ExactlyOne(variant_[x])
    /\ Called /\ out.kind = "result" => ExactlyOne(out.res)
C2_Witness ==
    /\ pc = "called" /\ out.op = "map" /\ is_err(out.pre)
    /\ \A x \in Inst : moved[x]

\* C3: unwrap() or expect(msg) on a Failure, and unwrap_err() or
\* expect_err(msg) on a Success, return no value: the call throws (with the
\* generic or the caller's message), the object stays the variant it was (no
\* Failure value is made of it), and nothing runs after the throw.
WrongVariant ==
    \/ out.op \in {"unwrap", "expect"} /\ is_err(out.pre)
    \/ out.op \in {"unwrap_err", "expect_err"} /\ is_ok(out.pre)
C4_Map ==
    Called /\ out.op = "map" =>
        /\ is_err(out.pre) =>
              out.calls = <<>> /\ out.res = [alt |-> "Err", v |-> out.pre.v]
        /\ is_ok(out.pre) =>
              out.res = [alt |-> "Ok", v |-> Apply(out.fn, out.pre.v)]
        /\ is_ok(out.pre) /\ out.pre.v = 2 /\ out.fn = "dbl" => out.res.v = 4
C4_Witness ==
    pc = "called" /\ out.op = "map" /\ is_err(out.pre) /\ out.pre.v = 1
        /\ out.fn = "inc" /\ out.live

\* C5: and_then(fn) on a Failure with payload e never invokes fn and returns
\* a Failure with payload e; on a Success with payload t it invokes fn
\* exactly once, with t, and returns fn's result unchanged.
C5_AndThen ==
    Called /\ out.op = "and_then" =>
        /\ is_err(out.pre) =>
              out.calls = <<>> /\ out.res = [alt |-> "Err", v |-> out.pre.v]
        /\ is_ok(out.pre) =>
              out.calls = <<out.pre.v>> /\ out.res = ApplyRes(out.fn, out.pre.v)
C5_Witness ==
    pc = "called" /\ out.op = "and_then" /\ is_err(out.pre) /\ out.pre.v = 1
        /\ out.fn = "ok_inc" /\ out.live

C8_TryPropagates ==
    /\ pc = "try_returned" /\ is_err(frame.sub) =>
          ~frame.after /\ frame.ret = [alt |-> "Err", v |-> frame.sub.v]
    /\ pc = "try_after" => is_ok(frame.sub) /\ frame.x = frame.sub.v
    /\ pc = "try_returned" /\ is_ok(frame.sub) => frame.after

\* C9: ok() gives a value exactly when the object holds Success; on a
\* Failure it gives nothing and leaves the failure payload untouched, so a
\* later err() still gives the original e (and the mirror for err()); of
\* ok() and err() only the one matching what the object was built with ever
\* gives a value.
C9_OkErr ==
    /\ \A x \in Inst : ~moved[x] => variant_[x] = orig[x]
    /\ Called /\ out.op = "ok" =>
          /\ out.kind = (IF is_ok(out.pre) THEN "some" ELSE "none")
          /\ out.kind = "some" => orig[Self].alt = "Ok"
          /\ out.kind = "some" /\ out.live => out.val = orig[Self].v
          /\ out.kind = "none" => variant_[Self] = out.pre /\ out.val = NoVal
    /\ Called /\ out.op = "err" =>
          /\ out.kind = (IF is_err(out.pre) THEN "some" ELSE "none")
          /\ out.kind = "some" => orig[Self].alt = "Err"
          /\ out.kind = "some" /\ out.live => out.val = orig[Self].v
          /\ out.kind = "none" => variant_[Self] = out.pre /\ out.val = NoVal
C9_Witness ==
    /\ pc = "called" /\ out.op = "ok" /\ out.kind = "none"
    /\ ~moved[Self] /\ variant_[Self] = Err(2)

\* C10: no extraction or combinator call changes the active variant: is_ok()
\* of an object stays what it was right after construction, and unwrap() or
\* ok() on a Success whose payload was already moved out neither throws nor
\* gives nothing: it returns again.
C10_NoSingleUse ==
    /\ \A x \in Inst : is_ok(variant_[x]) <=> orig[x].alt = "Ok"
    /\ Called /\ out.op \in {"unwrap", "ok"} /\ orig[Self].alt = "Ok" =>
          pc = "called" /\ out.kind \in {"value", "some"} /\ out.val \in Vals
C10_Witness ==
    /\ pc = "called" /\ out.op = "unwrap" /\ ~out.live /\ out.kind = "value"
    /\ orig[Self] = Ok(2) /\ out.val = 0

====
